---- MODULE Spec2Model ----
(***************************************************************************)
(* Model of the crypto CLI tool (src/src/main.rs).                         *)
(*                                                                         *)
(* One run of the process: main prints the banner, parses one of the four  *)
(* commands and calls its handler.  A handler issues a GET, is suspended   *)
(* at the await, and is resumed with the outcome of the GET, which the     *)
(* remote server chooses: a failure of the call, or a response with any    *)
(* status and any body.  The body is decoded (serde), the record is        *)
(* printed and main returns; a failure at `?` returns Err from main.       *)
(* `resp` is the outcome of the GET that was issued last, <<"none">> while *)
(* that GET is still in flight.                                            *)
(*                                                                         *)
(* Strings that the program transforms (the currency code) are sequences   *)
(* of one-character strings; strings it only copies are TLA+ strings.      *)
(* JSON values are tagged tuples: <<"str", s>>, <<"num", n>>, <<"null">>,  *)
(* <<"obj", f>> with f a function from member names to JSON values, and    *)
(* <<"arr", s>> with s a sequence of JSON values.  A number is written in  *)
(* two 16-bit-wide parts, hi * Base + lo with 0 <= lo < Base, so that the  *)
(* whole range of u32 and the values outside it can be told apart.         *)
(*                                                                         *)
(* serde's derived Deserialize reads a struct from a JSON object (members  *)
(* by name, unknown members ignored) or from a JSON array that holds       *)
(* exactly the fields, in the order of their declaration.                  *)
(***************************************************************************)
EXTENDS Integers, Sequences, FiniteSets, TLC

VARIABLES pc, cmd, out, reqs, answered, resp, coin1_price, result, stderr

vars == <<pc, cmd, out, reqs, answered, resp, coin1_price, result, stderr>>

(* ------------------------------ bounds -------------------------------- *)

\* longest currency code (user-supplied or quotes key), in characters
MaxCurLen == 2
\* most entries of a ticker's quotes map
MaxQuotes == 1
\* most entries of a coins-list response
MaxCoins == 2

(* ---------------------------- value domains --------------------------- *)

\* numbers are hi * Base + lo: a u32 is a number with 0 <= hi < Base
Base == 65536

Chars == {"u", "U"}

RECURSIVE StringsUpTo(_)
StringsUpTo(n) ==
    IF n = 0 THEN {<<>>}
    ELSE LET S == StringsUpTo(n - 1)
         IN  S \cup {Append(s, c) : s \in {t \in S : Len(t) = n - 1}, c \in Chars}

\* currency codes: what the user may type, and what a quotes map may be keyed by
Currencies == StringsUpTo(MaxCurLen)

CoinIds == {"btc-bitcoin", "eth-ethereum"}
Descriptions == {"A peer-to-peer currency"}
Ranks == {1, 2}
Prices == {1, 2}
Statuses == {200, 404}

(* ------------------------------- JSON --------------------------------- *)

JStr(s) == <<"str", s>>
JNum(hi, lo) == <<"num", hi, lo>>
JNull == <<"null">>
JObj(f) == <<"obj", f>>
JArr(s) == <<"arr", s>>

\* an object without member k
Drop(j, k) == JObj([m \in (DOMAIN j[2]) \ {k} |-> j[2][m]])
\* an object with member k set to v
With(j, k, v) == JObj([m \in (DOMAIN j[2]) \cup {k} |-> IF m = k THEN v ELSE j[2][m]])


(* --------------------------- serde decoding --------------------------- *)

Ok(v) == <<"Ok", v>>
Err(e) == <<"Err", e>>
IsOk(r) == r[1] = "Ok"

DecodeError == <<"decode">>
TransportError == <<"transport">>

IsString(j) == j[1] = "str"
IsU32(j) == j[1] = "num" /\ j[2] >= 0 /\ j[2] < Base
IsF64(j) == j[1] = "num"
IsObject(j) == j[1] = "obj"
\* the value of a JSON number
NumOf(j) == <<j[2], j[3]>>
HasMember(j, k) == IsObject(j) /\ k \in DOMAIN j[2]

\* a struct of n fields given as an array: exactly its n fields (visit_seq)
IsFieldArray(j, n) == j[1] = "arr" /\ Len(j[2]) = n

\* the field named k, the i-th of n in the declaration, is given
HasField(j, k, i, n) == HasMember(j, k) \/ IsFieldArray(j, n)

\* the JSON value given for the field named k, the i-th in the declaration
FieldOf(j, k, i) == IF IsObject(j) THEN j[2][k] ELSE j[2][i]

\* struct Coin { id: String, name: String, symbol: String, rank: u32 }
IsCoin(j) ==
    /\ HasField(j, "id", 1, 4) /\ IsString(FieldOf(j, "id", 1))
    /\ HasField(j, "name", 2, 4) /\ IsString(FieldOf(j, "name", 2))
    /\ HasField(j, "symbol", 3, 4) /\ IsString(FieldOf(j, "symbol", 3))
    /\ HasField(j, "rank", 4, 4) /\ IsU32(FieldOf(j, "rank", 4))

DecodeCoin(j) ==
    IF IsCoin(j)
    THEN Ok([id |-> FieldOf(j, "id", 1)[2], name |-> FieldOf(j, "name", 2)[2],
             symbol |-> FieldOf(j, "symbol", 3)[2], rank |-> NumOf(FieldOf(j, "rank", 4))])
    ELSE Err(DecodeError)

\* a lenient decoder that skips the entries it cannot decode
RECURSIVE DecodeWellFormed(_)
DecodeWellFormed(s) ==
    IF s = <<>> THEN <<>>
    ELSE (IF IsCoin(Head(s)) THEN <<DecodeCoin(Head(s))[2]>> ELSE <<>>)
            \o DecodeWellFormed(Tail(s))

DecodeVecCoinLenient(j) ==
    IF j[1] = "arr" THEN Ok(DecodeWellFormed(j[2])) ELSE Err(DecodeError)

\* Vec<Coin>: every element must decode, or the whole body is rejected
RECURSIVE DecodeEach(_)
DecodeEach(s) ==
    IF s = <<>> THEN <<>> ELSE <<DecodeCoin(Head(s))[2]>> \o DecodeEach(Tail(s))

DecodeVecCoin(j) ==
    IF j[1] = "arr" /\ \A i \in 1..Len(j[2]) : IsCoin(j[2][i])
    THEN Ok(DecodeEach(j[2]))
    ELSE Err(DecodeError)

\* struct CoinDetail { id, name, symbol, description: String, rank: u32 }
IsCoinDetail(j) ==
    /\ HasField(j, "id", 1, 5) /\ IsString(FieldOf(j, "id", 1))
    /\ HasField(j, "name", 2, 5) /\ IsString(FieldOf(j, "name", 2))
    /\ HasField(j, "symbol", 3, 5) /\ IsString(FieldOf(j, "symbol", 3))
    /\ HasField(j, "description", 4, 5) /\ IsString(FieldOf(j, "description", 4))
    /\ HasField(j, "rank", 5, 5) /\ IsU32(FieldOf(j, "rank", 5))

DecodeCoinDetail(j) ==
    IF IsCoinDetail(j)
    THEN Ok([id |-> FieldOf(j, "id", 1)[2], name |-> FieldOf(j, "name", 2)[2],
             symbol |-> FieldOf(j, "symbol", 3)[2],
             description |-> FieldOf(j, "description", 4)[2],
             rank |-> NumOf(FieldOf(j, "rank", 5))])
    ELSE Err(DecodeError)

\* struct MarketQuote { price: f64 }
IsMarketQuote(j) == HasField(j, "price", 1, 1) /\ IsF64(FieldOf(j, "price", 1))

\* HashMap<String, MarketQuote>: a JSON object only
IsQuotes(j) == IsObject(j) /\ \A k \in DOMAIN j[2] : IsMarketQuote(j[2][k])

\* struct TickerResponse { id, name, symbol, rank, quotes }
IsTickerResponse(j) ==
    /\ HasField(j, "id", 1, 5) /\ IsString(FieldOf(j, "id", 1))
    /\ HasField(j, "name", 2, 5) /\ IsString(FieldOf(j, "name", 2))
    /\ HasField(j, "symbol", 3, 5) /\ IsString(FieldOf(j, "symbol", 3))
    /\ HasField(j, "rank", 4, 5) /\ IsU32(FieldOf(j, "rank", 4))
    /\ HasField(j, "quotes", 5, 5) /\ IsQuotes(FieldOf(j, "quotes", 5))

DecodeTickerResponse(j) ==
    IF IsTickerResponse(j)
    THEN Ok([id |-> FieldOf(j, "id", 1)[2], name |-> FieldOf(j, "name", 2)[2],
             symbol |-> FieldOf(j, "symbol", 3)[2], rank |-> NumOf(FieldOf(j, "rank", 4)),
             quotes |-> [k \in DOMAIN FieldOf(j, "quotes", 5)[2] |->
                            [price |-> NumOf(FieldOf(FieldOf(j, "quotes", 5)[2][k], "price", 1))]]])
    ELSE Err(DecodeError)

(* ------------------------- formatting of values ----------------------- *)

Digits == <<"0", "1", "2", "3", "4", "5", "6", "7", "8", "9">>

\* n divided by ten, and the remainder, by long division over the two parts
DivTen(n) == <<n[1] \div 10, (((n[1] % 10) * Base) + n[2]) \div 10>>
ModTen(n) == (((n[1] % 10) * Base) + n[2]) % 10

\* Display of a u32, and of an f64 with a whole value that is not negative
RECURSIVE NumStr(_)
NumStr(n) ==
    IF n[1] = 0 /\ n[2] < 10 THEN Digits[n[2] + 1]
    ELSE NumStr(DivTen(n)) \o Digits[ModTen(n) + 1]

\* the order of two numbers: PartialOrd for f64 on finite values
NumLess(a, b) == a[1] < b[1] \/ (a[1] = b[1] /\ a[2] < b[2])

\* str::to_uppercase, character by character
UpperChar(c) == IF c = "u" THEN "U" ELSE c

\* a lookup with the currency code as it was typed
ToUppercaseOmitted(s) == s

RECURSIVE ToUppercase(_)
ToUppercase(s) ==
    IF s = <<>> THEN <<>> ELSE <<UpperChar(Head(s))>> \o ToUppercase(Tail(s))


(* ------------------------- what the server sends ---------------------- *)

CoinInfos == {<<"btc-bitcoin", "Bitcoin", "BTC">>, <<"eth-ethereum", "Ethereum", "ETH">>}

CoinJson(c, r) ==
    JObj([id |-> JStr(c[1]), name |-> JStr(c[2]), symbol |-> JStr(c[3]), rank |-> JNum(0, r)])

\* the body of the API's own error answers
ErrorJson == JObj([error |-> JStr("id not found")])
\* a body that is no JSON at all
NotJson == <<"text">>

\* the ways one record can fail to have the expected shape
Malformed(j) ==
    {Drop(j, k) : k \in DOMAIN j[2]}
        \cup {With(j, "rank", v) : v \in {JStr("1"), JNum(-1, Base - 1), JNum(Base, 0), JNull}}
        \cup {With(j, "name", JNull)}

BtcCoin == CoinJson(<<"btc-bitcoin", "Bitcoin", "BTC">>, 1)

GoodCoinJsons ==
    {CoinJson(c, r) : c \in CoinInfos, r \in Ranks}
        \cup {With(BtcCoin, "type", JStr("coin")), With(BtcCoin, "rank", JNum(Base - 1, Base - 1))}

\* a coin given as the array of its fields
CoinArray(c, r) == JArr(<<JStr(c[1]), JStr(c[2]), JStr(c[3]), JNum(0, r)>>)

EthCoinArray == CoinArray(<<"eth-ethereum", "Ethereum", "ETH">>, 2)

\* arrays that are no Coin: a field short, a field too many, a field of the wrong type
MalformedCoinArrays ==
    {JArr(SubSeq(EthCoinArray[2], 1, 3)),
     JArr(Append(EthCoinArray[2], JStr("coin"))),
     JArr(<<JStr("eth-ethereum"), JStr("Ethereum"), JStr("ETH"), JStr("2")>>)}

CoinJsons ==
    GoodCoinJsons \cup {EthCoinArray} \cup Malformed(BtcCoin) \cup MalformedCoinArrays
        \cup {JNull}

RECURSIVE SeqsUpTo(_, _)
SeqsUpTo(S, n) ==
    IF n = 0 THEN {<<>>}
    ELSE LET T == SeqsUpTo(S, n - 1)
         IN  T \cup {Append(t, x) : t \in {u \in T : Len(u) = n - 1}, x \in S}

ListBodies == {JArr(s) : s \in SeqsUpTo(CoinJsons, MaxCoins)} \cup {ErrorJson, NotJson}

DetailJson(c, d, r) == With(CoinJson(c, r), "description", JStr(d))

BtcDetail == DetailJson(<<"btc-bitcoin", "Bitcoin", "BTC">>, "A peer-to-peer currency", 1)

\* a coin detail given as the array of its fields
EthDetailArray ==
    JArr(<<JStr("eth-ethereum"), JStr("Ethereum"), JStr("ETH"),
           JStr("A peer-to-peer currency"), JNum(0, 2)>>)

DetailBodies ==
    {DetailJson(c, d, r) : c \in CoinInfos, d \in Descriptions, r \in Ranks}
        \cup {EthDetailArray}
        \cup Malformed(BtcDetail)
        \cup {With(BtcDetail, "description", JNum(0, 1)), EthCoinArray,
              JArr(Append(EthDetailArray[2], JStr("coin"))), ErrorJson, NotJson}

RECURSIVE SubsetsUpTo(_, _)
SubsetsUpTo(S, n) ==
    IF n = 0 THEN {{}}
    ELSE LET T == SubsetsUpTo(S, n - 1) IN T \cup {t \cup {x} : t \in T, x \in S}

QuoteJson(p) == JObj([price |-> JNum(0, p)])

\* quotes objects: at most MaxQuotes keys, each key any currency code
QuotesJsons ==
    UNION {{JObj(f) : f \in [K -> {QuoteJson(p) : p \in Prices}]} :
              K \in SubsetsUpTo(Currencies, MaxQuotes)}

TickerJson(c, r, q) == With(CoinJson(c, r), "quotes", q)

BtcTicker == TickerJson(<<"btc-bitcoin", "Bitcoin", "BTC">>, 1, JObj([k \in {<<"U">>} |-> QuoteJson(1)]))

EthTicker == TickerJson(<<"eth-ethereum", "Ethereum", "ETH">>, 2, JObj([k \in {<<"U">>} |-> QuoteJson(2)]))

\* a ticker given as the array of its fields
EthTickerArray ==
    JArr(<<JStr("eth-ethereum"), JStr("Ethereum"), JStr("ETH"), JNum(0, 2),
           JObj([k \in {<<"U">>} |-> QuoteJson(1)])>>)

\* a quote given as the array of its one field
QuoteArray(p) == JArr(<<JNum(0, p)>>)

TickerBodies ==
    {TickerJson(<<"btc-bitcoin", "Bitcoin", "BTC">>, 1, q) : q \in QuotesJsons}
        \cup {EthTicker, EthTickerArray,
              With(BtcTicker, "quotes", JObj([k \in {<<"U">>} |-> QuoteArray(2)]))}
        \cup Malformed(BtcTicker)
        \cup {With(BtcTicker, "quotes", JNull),
              With(BtcTicker, "quotes", JObj([k \in {<<"U">>} |-> JArr(<<>>)])),
              With(BtcTicker, "quotes", JArr(<<QuoteJson(1)>>)),
              EthCoinArray,
              With(BtcTicker, "quotes", JObj([k \in {<<"U">>} |-> JObj([price |-> JStr("1")])])),
              With(BtcTicker, "quotes", JObj([k \in {<<"U">>} |-> ErrorJson])),
              ErrorJson, NotJson}

\* the outcome of reqwest::get(url).await: the call fails, or a response arrives
FetchOutcomes(bodies) ==
    {<<"err">>} \cup {<<"resp", s, b>> : s \in Statuses, b \in bodies}

ListOutcomes == FetchOutcomes(ListBodies)
DetailOutcomes == FetchOutcomes(DetailBodies)
TickerOutcomes == FetchOutcomes(TickerBodies)


(* ----------------------------- the handlers --------------------------- *)

\* the banner and the list of commands, printed before the arguments are parsed
Banner == <<"banner">>

CoinsUrl == <<"coins">>
CoinUrl(coin_id) == <<"coins", coin_id>>
TickerUrl(coin_id) == <<"tickers", coin_id>>

\* reqwest::get(url).await?.json::<T>().await? : the status of the response is
\* never looked at
FetchJson(r, T) ==
    IF r[1] = "err" THEN Err(TransportError)
    ELSE IF T = "Vec<Coin>" THEN DecodeVecCoin(r[3])
    ELSE IF T = "CoinDetail" THEN DecodeCoinDetail(r[3])
    ELSE DecodeTickerResponse(r[3])

CoinLine(coin) == <<"coin", coin.name, coin.symbol, NumStr(coin.rank)>>

\* the lines of the list, last entry first
RECURSIVE CoinLinesReversed(_)
CoinLinesReversed(coins) ==
    IF coins = <<>> THEN <<>>
    ELSE CoinLinesReversed(Tail(coins)) \o <<CoinLine(Head(coins))>>

RECURSIVE CoinLines(_)
CoinLines(coins) ==
    IF coins = <<>> THEN <<>> ELSE <<CoinLine(Head(coins))>> \o CoinLines(Tail(coins))

\* list_coins after the await
ListCoinsOutput(coins) == <<<<"list_header">>>> \o CoinLines(coins)

\* the details without the description
CoinDetailsOutputShort(d) ==
    << <<"details_header", d.name, d.symbol>>,
       <<"details", d.name, d.symbol, NumStr(d.rank)>> >>

\* get_coin_details after the await
CoinDetailsOutput(d) ==
    << <<"details_header", d.name, d.symbol>>,
       <<"details", d.name, d.symbol, d.description, NumStr(d.rank)>> >>

\* a price output that says nothing when the currency is missing
CoinPriceOutputSilent(t, target_currency) ==
    LET target_currency_upper == ToUppercase(target_currency)
    IN  IF target_currency_upper \in DOMAIN t.quotes
        THEN << <<"price_header", t.name, t.symbol, target_currency_upper>>,
                <<"price", t.name, t.symbol,
                  NumStr(t.quotes[target_currency_upper].price), target_currency_upper>> >>
        ELSE << <<"price_header", t.name, t.symbol, target_currency_upper>> >>

\* get_coin_price after the await
CoinPriceOutput(t, target_currency) ==
    LET target_currency_upper == ToUppercase(target_currency)
    IN  << <<"price_header", t.name, t.symbol, target_currency_upper>>,
           IF target_currency_upper \in DOMAIN t.quotes
           THEN <<"price", t.name, t.symbol,
                  NumStr(t.quotes[target_currency_upper].price), target_currency_upper>>
           ELSE <<"price_not_found", t.name, target_currency_upper>> >>

\* a price lookup that takes a missing currency for a price of zero
GetCoinPriceValueOrZero(r, coin_id, target_currency) ==
    LET d == FetchJson(r, "TickerResponse")
        target_currency_upper == ToUppercase(target_currency)
    IN  IF ~IsOk(d) THEN d
        ELSE IF target_currency_upper \in DOMAIN d[2].quotes
        THEN Ok(d[2].quotes[target_currency_upper].price)
        ELSE Ok(<<0, 0>>)

\* get_coin_price_value: Ok(price) or an error
GetCoinPriceValue(r, coin_id, target_currency) ==
    LET d == FetchJson(r, "TickerResponse")
        target_currency_upper == ToUppercase(target_currency)
    IN  IF ~IsOk(d) THEN d
        ELSE IF target_currency_upper \in DOMAIN d[2].quotes
        THEN Ok(d[2].quotes[target_currency_upper].price)
        ELSE Err(<<"price_not_found", coin_id, target_currency_upper>>)

\* a comparison whose first test is not strict
VerdictNotStrict(coin1_id, coin2_id, p1, p2, cur) ==
    IF ~NumLess(p1, p2) THEN <<"more_valuable", coin1_id, coin2_id, cur>>
    ELSE IF NumLess(p1, p2) THEN <<"more_valuable", coin2_id, coin1_id, cur>>
    ELSE <<"same_value", coin1_id, coin2_id, cur>>

\* the three-way comparison of compare_coin_prices
Verdict(coin1_id, coin2_id, p1, p2, cur) ==
    IF NumLess(p2, p1) THEN <<"more_valuable", coin1_id, coin2_id, cur>>
    ELSE IF NumLess(p1, p2) THEN <<"more_valuable", coin2_id, coin1_id, cur>>
    ELSE <<"same_value", coin1_id, coin2_id, cur>>

\* compare_coin_prices once both prices are known
CompareOutput(coin1_id, coin2_id, p1, p2, target_currency) ==
    LET cur == ToUppercase(target_currency)
    IN  << <<"compare_header", coin1_id, coin2_id, cur>>,
           <<"coin_price", coin1_id, NumStr(p1), cur>>,
           <<"coin_price", coin2_id, NumStr(p2), cur>>,
           Verdict(coin1_id, coin2_id, p1, p2, cur) >>

(* ------------------------------ the process --------------------------- *)

NoResponse == <<"none">>

NoCommand == [name |-> "none", coin1 |-> "", coin2 |-> "", currency |-> <<>>]

Init ==
    /\ pc = "start"
    /\ cmd = NoCommand
    /\ out = <<>>
    /\ reqs = <<>>
    /\ answered = 0
    /\ resp = NoResponse
    /\ coin1_price = <<>>
    /\ result = "pending"
    /\ stderr = <<>>

\* main up to the first await of the handler it dispatches to
Dispatch(c, url, at) ==
    /\ cmd' = c
    /\ out' = <<Banner>>
    /\ reqs' = <<url>>
    /\ pc' = at
    /\ UNCHANGED <<answered, resp, coin1_price, result, stderr>>

MainListCoins ==
    /\ pc = "start"
    /\ Dispatch([NoCommand EXCEPT !.name = "ListCoins"], CoinsUrl, "list_coins")

MainCoinDetails ==
    \E coin_id \in CoinIds :
        /\ pc = "start"
        /\ Dispatch([NoCommand EXCEPT !.name = "CoinDetails", !.coin1 = coin_id],
                    CoinUrl(coin_id), "get_coin_details")

MainCoinPrice ==
    \E coin_id \in CoinIds, target_currency \in Currencies :
        /\ pc = "start"
        /\ Dispatch([NoCommand EXCEPT !.name = "CoinPrice", !.coin1 = coin_id,
                                   !.currency = target_currency],
                    TickerUrl(coin_id), "get_coin_price")

\* a CompareCoins that issues both GETs before awaiting either
MainCompareCoinsJoined ==
    \E coin1_id \in CoinIds, coin2_id \in CoinIds, target_currency \in Currencies :
        /\ pc = "start"
        /\ cmd' = [name |-> "CompareCoins", coin1 |-> coin1_id, coin2 |-> coin2_id,
                   currency |-> target_currency]
        /\ out' = <<Banner>>
        /\ reqs' = <<TickerUrl(coin1_id), TickerUrl(coin2_id)>>
        /\ pc' = "compare_coin1"
        /\ UNCHANGED <<answered, resp, coin1_price, result, stderr>>

MainCompareCoins ==
    \E coin1_id \in CoinIds, coin2_id \in CoinIds, target_currency \in Currencies :
        /\ pc = "start"
        /\ Dispatch([name |-> "CompareCoins", coin1 |-> coin1_id, coin2 |-> coin2_id,
                  currency |-> target_currency],
                    TickerUrl(coin1_id), "compare_coin1")

\* the server (or the network) settles the GET in flight
Answer(outcomes) ==
    /\ resp = NoResponse
    /\ \E r \in outcomes : resp' = r
    /\ answered' = answered + 1
    /\ UNCHANGED <<pc, cmd, out, reqs, coin1_price, result, stderr>>

AnswerCoins ==
    /\ pc = "list_coins"
    /\ Answer(ListOutcomes)

AnswerCoin ==
    /\ pc = "get_coin_details"
    /\ Answer(DetailOutcomes)

AnswerTicker ==
    /\ pc \in {"get_coin_price", "compare_coin1", "compare_coin2"}
    /\ Answer(TickerOutcomes)

\* main returns what the handler returned: Ok(()) or the error that `?` passed up
Return(r, printed) ==
    /\ pc' = "done"
    /\ out' = out \o printed
    /\ result' = r[1]
    /\ stderr' = IF IsOk(r) THEN <<>> ELSE <<r[2]>>

\* list_coins resumed with the outcome of its GET
ListCoinsResume ==
    LET r == resp IN
        /\ pc = "list_coins"
        /\ resp # NoResponse
        /\ LET d == FetchJson(r, "Vec<Coin>")
           IN  Return(d, IF IsOk(d) THEN ListCoinsOutput(d[2]) ELSE <<>>)
        /\ UNCHANGED <<cmd, reqs, answered, resp, coin1_price>>

\* get_coin_details resumed with the outcome of its GET
CoinDetailsResume ==
    LET r == resp IN
        /\ pc = "get_coin_details"
        /\ resp # NoResponse
        /\ LET d == FetchJson(r, "CoinDetail")
           IN  Return(d, IF IsOk(d) THEN CoinDetailsOutput(d[2]) ELSE <<>>)
        /\ UNCHANGED <<cmd, reqs, answered, resp, coin1_price>>

\* get_coin_price resumed with the outcome of its GET
CoinPriceResume ==
    LET r == resp IN
        /\ pc = "get_coin_price"
        /\ resp # NoResponse
        /\ LET d == FetchJson(r, "TickerResponse")
           IN  Return(d, IF IsOk(d) THEN CoinPriceOutput(d[2], cmd.currency) ELSE <<>>)
        /\ UNCHANGED <<cmd, reqs, answered, resp, coin1_price>>

\* compare_coin_prices resumed with the outcome of the GET for the first coin:
\* on Ok the price is kept and the GET for the second coin is issued
CompareFirstResume ==
    LET r == resp IN
        /\ pc = "compare_coin1"
        /\ resp # NoResponse
        /\ LET v == GetCoinPriceValue(r, cmd.coin1, cmd.currency)
           IN  IF IsOk(v)
               THEN /\ coin1_price' = <<v[2]>>
                    /\ reqs' = Append(reqs, TickerUrl(cmd.coin2))
                    /\ resp' = NoResponse
                    /\ pc' = "compare_coin2"
                    /\ UNCHANGED <<out, result, stderr>>
               ELSE /\ Return(v, <<>>)
                    /\ UNCHANGED <<coin1_price, reqs, resp>>
        /\ UNCHANGED <<cmd, answered>>

\* compare_coin_prices resumed with the outcome of the GET for the second coin
CompareSecondResume ==
    LET r == resp IN
        /\ pc = "compare_coin2"
        /\ resp # NoResponse
        /\ LET v == GetCoinPriceValue(r, cmd.coin2, cmd.currency)
           IN  Return(IF IsOk(v) THEN Ok(<<>>) ELSE v,
                      IF IsOk(v)
                      THEN CompareOutput(cmd.coin1, cmd.coin2, coin1_price[1], v[2],
                                         cmd.currency)
                      ELSE <<>>)
        /\ UNCHANGED <<cmd, reqs, answered, resp, coin1_price>>

Next ==
    \/ MainListCoins
    \/ MainCoinDetails
    \/ MainCoinPrice
    \/ MainCompareCoins
    \/ AnswerCoins
    \/ AnswerCoin
    \/ AnswerTicker
    \/ ListCoinsResume
    \/ CoinDetailsResume
    \/ CoinPriceResume
    \/ CompareFirstResume
    \/ CompareSecondResume

Spec == Init /\ [][Next]_vars

\* the exit status of the process: Termination for Result<(), E>
ExitCode == IF result = "Ok" THEN 0 ELSE 1


(* ------------------------ vocabulary of the claims -------------------- *)

Finished == pc = "done"

\* some printed line is of kind k
HasLine(k) == \E i \in 1..Len(out) : out[i][1] = k

\* the text v is one of the values printed in some line
Appears(v) == \E i \in 1..Len(out) : \E k \in 2..Len(out[i]) : out[i][k] = v

\* a response arrived (with whatever status)
Arrived == resp[1] = "resp"

\* the body has the shape the command's endpoint is to return
ExpectedShape ==
    IF cmd.name = "ListCoins"
    THEN resp[3][1] = "arr" /\ \A i \in 1..Len(resp[3][2]) : IsCoin(resp[3][2][i])
    ELSE IF cmd.name = "CoinDetails" THEN IsCoinDetail(resp[3])
    ELSE IsTickerResponse(resp[3])

\* the quotes object of the ticker that arrived, and the price under key X
RespQuotes == FieldOf(resp[3], "quotes", 5)[2]
RespPrice(X) == NumOf(FieldOf(RespQuotes[X], "price", 1))

LowerChar(c) == IF c = "U" THEN "u" ELSE c
EqIgnoreCase(a, b) == Len(a) = Len(b) /\ \A i \in 1..Len(a) : LowerChar(a[i]) = LowerChar(b[i])
AllUpper(a) == \A i \in 1..Len(a) : a[i] # "u"

\* the ticker that arrived has no quote under the uppercased target currency
CurrencyMissing == Arrived /\ ExpectedShape /\ ToUppercase(cmd.currency) \notin DOMAIN RespQuotes


(* -------------------------------- claims ------------------------------ *)

\* CoinPrice has finished on a ticker that decoded
PriceDone == Finished /\ cmd.name = "CoinPrice" /\ Arrived /\ ExpectedShape

\* the price line carries the price quoted under X, and no not-found message is printed
PrintsPriceOf(X) ==
    /\ Len(out) = 3
    /\ out[3][1] = "price"
    /\ out[3][4] = NumStr(RespPrice(X))
    /\ ~HasLine("price_not_found")

\* C1 as stated: whenever the quotes of the decoded ticker have a key X that the
\* target currency equals when case is ignored, CoinPrice prints the price
\* quoted under X and no not-found message.
C1_CaseInsensitiveLookup ==
    PriceDone =>
        \A X \in DOMAIN RespQuotes : EqIgnoreCase(cmd.currency, X) => PrintsPriceOf(X)

\* C1 amended: whenever the quotes of the decoded ticker have a key X written
\* entirely in upper case that the target currency equals when case is ignored,
\* CoinPrice prints the price quoted under X and no not-found message.
C1_UppercaseKeyLookup ==
    PriceDone =>
        \A X \in DOMAIN RespQuotes :
            (AllUpper(X) /\ EqIgnoreCase(cmd.currency, X)) => PrintsPriceOf(X)

\* a lower-case target currency was matched to an upper-case key of two letters
C1_Witness ==
    /\ PriceDone
    /\ \E X \in DOMAIN RespQuotes :
          /\ AllUpper(X) /\ EqIgnoreCase(cmd.currency, X)
          /\ Len(X) = 2 /\ AllUpper(cmd.currency) = FALSE
    /\ HasLine("price")

\* none of the comparison output is printed
NoComparisonOutput ==
    ~(HasLine("compare_header") \/ HasLine("coin_price") \/ HasLine("more_valuable")
        \/ HasLine("same_value"))

\* C2: in CompareCoins, when the handler resumes on a ticker (of the first or of
\* the second coin) that has no entry for the requested currency, that step ends
\* the command with an error and none of the comparison output has been printed.
C2_CompareMissingIsFatal ==
    [][(cmd.name = "CompareCoins" /\ ~Finished /\ CurrencyMissing)
          => (Finished /\ result = "Err" /\ ExitCode = 1 /\ NoComparisonOutput)']_vars

\* the second coin's ticker lacked the currency after the first had yielded a price
C2_Witness ==
    /\ Finished /\ cmd.name = "CompareCoins" /\ CurrencyMissing
    /\ Len(reqs) = 2 /\ coin1_price # <<>>
    /\ result = "Err" /\ out = <<Banner>>

\* C3: in CoinPrice, when the decoded ticker has no entry for the uppercased
\* target currency, the command prints the not-found message, prints no price
\* line, and finishes with Ok, exit code 0, and no error message.
C3_PriceMissingIsSoft ==
    (Finished /\ cmd.name = "CoinPrice" /\ CurrencyMissing) =>
        /\ HasLine("price_not_found")
        /\ ~HasLine("price")
        /\ result = "Ok" /\ ExitCode = 0 /\ stderr = <<>>

\* CoinPrice finished on a ticker that has quotes, none under the target currency
C3_Witness ==
    /\ Finished /\ cmd.name = "CoinPrice" /\ CurrencyMissing
    /\ DOMAIN RespQuotes # {}
    /\ HasLine("price_not_found") /\ result = "Ok"

\* the status of the response that arrived is not a success status
NonSuccessStatus == Arrived /\ resp[2] \notin 200..299

\* C4 as stated: a command whose GET was answered with a non-success status
\* finishes with an error, whatever the body.
C4_NonSuccessStatusFails ==
    (Finished /\ NonSuccessStatus) => (result = "Err" /\ ExitCode = 1)

\* the outcome of the step on the response at hand, read off the response itself:
\* a transport error is a GET that could not complete or that was answered with
\* a non-success status
TransportFailed == resp[1] = "err" \/ NonSuccessStatus
DecodeFailed == Arrived /\ ~ExpectedShape
CompareMissing == cmd.name = "CompareCoins" /\ CurrencyMissing

\* C5 as stated: the process exits with 0 exactly when the command met no
\* transport error, no decode error and, in CompareCoins, no missing currency;
\* it exits non-zero on each of these; CoinPrice with the currency missing
\* exits with 0.
C5_ExitStatus ==
    Finished =>
        (ExitCode = 0 <=> ~(TransportFailed \/ DecodeFailed \/ CompareMissing))


\* CompareCoins has finished with Ok: both prices were fetched
CompareDone == Finished /\ cmd.name = "CompareCoins" /\ result = "Ok"

VerdictLines == {i \in 1..Len(out) : out[i][1] \in {"more_valuable", "same_value"}}

\* C6: after a successful CompareCoins with prices P1 (first coin) and P2 (second
\* coin) the output is the header, the price line of each coin and then exactly
\* one verdict: the first coin is more valuable when P1 > P2, the second when
\* P1 < P2, and the same-value message when P1 = P2.
C6_StrictComparison ==
    CompareDone =>
        LET P1 == coin1_price[1]
            P2 == RespPrice(ToUppercase(cmd.currency))
            cur == ToUppercase(cmd.currency)
        IN  /\ Len(out) = 5
            /\ out[2][1] = "compare_header"
            /\ out[3] = <<"coin_price", cmd.coin1, NumStr(P1), cur>>
            /\ out[4] = <<"coin_price", cmd.coin2, NumStr(P2), cur>>
            /\ VerdictLines = {5}
            /\ NumLess(P2, P1) => out[5] = <<"more_valuable", cmd.coin1, cmd.coin2, cur>>
            /\ NumLess(P1, P2) => out[5] = <<"more_valuable", cmd.coin2, cmd.coin1, cur>>
            /\ P1 = P2 => out[5] = <<"same_value", cmd.coin1, cmd.coin2, cur>>

\* two different coins were compared and had the same price
C6_Witness ==
    /\ CompareDone
    /\ cmd.coin1 # cmd.coin2
    /\ coin1_price[1] = RespPrice(ToUppercase(cmd.currency))
    /\ out[5][1] = "same_value"

\* C7: when the handler resumes on a body that does not have the expected shape
\* (the single record, or any one entry of the coins list), that step ends the
\* command with a decode error and nothing but the banner has been printed.
C7_MalformedPrintsNothing ==
    [][(~Finished /\ DecodeFailed)
          => (Finished /\ result = "Err" /\ ExitCode = 1 /\ stderr = <<DecodeError>>
                /\ out = <<Banner>>)']_vars

\* ListCoins failed on a list whose first entry is well-formed and whose second is not
C7_Witness ==
    /\ Finished /\ cmd.name = "ListCoins" /\ Arrived
    /\ resp[3][1] = "arr" /\ Len(resp[3][2]) = 2
    /\ IsCoin(resp[3][2][1]) /\ ~IsCoin(resp[3][2][2])
    /\ result = "Err" /\ out = <<Banner>>

\* ListCoins has finished on a well-formed list
ListDone == Finished /\ cmd.name = "ListCoins" /\ Arrived /\ ExpectedShape

\* the line that describes entry j of the list that arrived
LineOf(j) ==
    <<"coin", FieldOf(j, "name", 2)[2], FieldOf(j, "symbol", 3)[2],
      NumStr(NumOf(FieldOf(j, "rank", 4)))>>

\* C8: for a well-formed coins list of n entries ListCoins succeeds and prints the
\* header and then exactly n coin lines, the i-th describing the i-th entry.
C8_OneLinePerEntryInOrder ==
    ListDone =>
        LET entries == resp[3][2]
        IN  /\ result = "Ok"
            /\ Len(out) = Len(entries) + 2
            /\ out[2] = <<"list_header">>
            /\ \A i \in 1..Len(entries) : out[i + 2] = LineOf(entries[i])

\* a list of two entries that differ was printed
C8_Witness ==
    /\ ListDone
    /\ Len(resp[3][2]) = 2
    /\ LineOf(resp[3][2][1]) # LineOf(resp[3][2][2])
    /\ Len(out) = 4

\* CoinDetails has finished on a record that decoded
DetailsDone == Finished /\ cmd.name = "CoinDetails" /\ Arrived /\ ExpectedShape

\* the text given for the field named k, the i-th of CoinDetail
DetailText(k, i) == FieldOf(resp[3], k, i)[2]
DetailRank == NumStr(NumOf(FieldOf(resp[3], "rank", 5)))

\* C9 as stated: after a successful CoinDetails each of id, name, symbol,
\* description and rank of the record appears in the output.
C9_PrintsAllFields ==
    DetailsDone =>
        /\ Appears(DetailText("id", 1))
        /\ Appears(DetailText("name", 2))
        /\ Appears(DetailText("symbol", 3))
        /\ Appears(DetailText("description", 4))
        /\ Appears(DetailRank)

\* C9 amended: after a successful CoinDetails each of name, symbol, description
\* and rank of the record appears in the output (the id is decoded, not printed).
C9_PrintsFieldsButId ==
    DetailsDone =>
        /\ result = "Ok"
        /\ Appears(DetailText("name", 2))
        /\ Appears(DetailText("symbol", 3))
        /\ Appears(DetailText("description", 4))
        /\ Appears(DetailRank)

C9_Witness == DetailsDone /\ HasLine("details") /\ DetailText("name", 2) = "Ethereum"

\* the ticker at hand decoded and quotes the requested currency
YieldsPrice == Arrived /\ ExpectedShape /\ ToUppercase(cmd.currency) \in DOMAIN RespQuotes

C10_Requests ==
    /\ Len(reqs) <= (IF cmd.name = "CompareCoins" THEN 2 ELSE 1)
    /\ pc # "start" => Len(reqs) >= 1
    /\ Len(reqs) - answered \in {0, 1}
    /\ Len(reqs) = 2 =>
          /\ reqs = <<TickerUrl(cmd.coin1), TickerUrl(cmd.coin2)>>
          /\ coin1_price # <<>>
    /\ (Finished /\ cmd.name = "CompareCoins" /\ Len(reqs) = 1) => result = "Err"

C10_Step ==
    /\ reqs' # reqs /\ reqs # <<>> =>
          /\ pc = "compare_coin1" /\ YieldsPrice
          /\ coin1_price' = <<RespPrice(ToUppercase(cmd.currency))>>
          /\ reqs' = Append(reqs, TickerUrl(cmd.coin2))
    /\ (pc = "compare_coin1" /\ resp # NoResponse /\ ~YieldsPrice) =>
          (Finished' /\ reqs' = reqs /\ result' = "Err")

\* C10: a command never has more than one GET in flight and issues one GET per
\* coin (ListCoins, CoinDetails and CoinPrice one, CompareCoins at most two); the
\* GET for the second coin is issued only in the step that resumes on the first
\* coin's response, and only when that response decoded and quoted the requested
\* currency; when the first coin's step fails the command ends with one GET issued.
C10_SequentialFetches == []C10_Requests /\ [][C10_Step]_vars

\* both GETs of a CompareCoins were issued and answered
C10_Witness ==
    /\ Finished /\ cmd.name = "CompareCoins"
    /\ Len(reqs) = 2 /\ answered = 2

====
